---- MODULE Spec2Model ----
(***************************************************************************)
(* Interaction logic of three pieces of the component library:             *)
(*   - TextInputWithTokens (src/src/TextInputWithTokens.tsx): the token    *)
(*     selection state, the option list visibility, the active descendant  *)
(*     reference and the keyboard handlers of the input and of the tokens; *)
(*   - scrollIntoViewingArea (same file): the decision to scroll;          *)
(*   - Breadcrumb.Item (src/unnamed/part_001): the attributes computed     *)
(*     from the props.                                                     *)
(* Indexes are 0-based as in the source; TLA+ sequences are 1-based, so    *)
(* the element at source index i is tokens[i + 1].                         *)
(* An optional value (T | undefined, a ref's current) is a sequence of     *)
(* length at most one: Undefined is <<>>, a present value x is <<x>>.      *)
(***************************************************************************)
EXTENDS Integers, Sequences, FiniteSets

\* ---------------------------------------------------------------- bounds
MaxTokens == 3      \* longest tokens list the parent passes
MaxItems == 2       \* option elements of the list box
MaxValueLen == 1    \* longest text typed in the input
MaxCoord == 5       \* largest client coordinate, in units of Step
MaxClasses == 2     \* most class names in a caller's className

Step == 4           \* granularity of the client coordinates
Chars == {"a", "0"}

Undefined == <<>>
Some(x) == <<x>>

TokenIds == 1..MaxTokens
Items == 1..MaxItems
Keys == {"Backspace", "Escape", "Enter", "a"}

SeqsUpTo(S, n) == UNION {[1..k -> S] : k \in 0..n}
InputValues == SeqsUpTo(Chars, MaxValueLen)

VARIABLES
    tokens,               \* prop tokens: Token[]
    selectedTokenIdx,     \* useState<number | undefined>()
    showMenu,             \* useState(false)
    activeDescendantRef,  \* useRef<HTMLElement>().current
    inputValue,           \* value of the <input> (e.currentTarget.value)
    reported,             \* history: last `current` given to onActiveDescendantChanged
    ev,                   \* observable effects of the last handler that ran
    scroll,               \* last scrollIntoViewingArea call: rectangles and scrollTo calls
    item                  \* last Breadcrumb.Item rendered: props and computed attrs

vars == <<tokens, selectedTokenIdx, showMenu, activeDescendantRef, inputValue,
          reported, ev, scroll, item>>

textVars == <<tokens, selectedTokenIdx, showMenu, activeDescendantRef, inputValue,
              reported, ev>>

\* ------------------------------------------------------ JavaScript values
\* A JavaScript value of the kinds the props take.  A string is kept as the
\* sequence of its space-separated words (s); only booleans use b.
JsUndefined == [t |-> "undefined", b |-> FALSE, s |-> <<>>]
JsNull == [t |-> "null", b |-> FALSE, s |-> <<>>]
JsBool(x) == [t |-> "boolean", b |-> x, s |-> <<>>]
JsString(words) == [t |-> "string", b |-> FALSE, s |-> words]
JsObject == [t |-> "object", b |-> FALSE, s |-> <<>>]

Truthy(v) ==
    CASE v.t = "boolean" -> v.b
      [] v.t = "string" -> Len(v.s) > 0
      [] v.t = "object" -> TRUE
      [] OTHER -> FALSE

\* a && b
JsAnd(a, b) == IF Truthy(a) THEN b ELSE a

\* cond ? a : b
JsCond(c, a, b) == IF Truthy(c) THEN a ELSE b

\* ------------------------------------------------- TextInputWithTokens
\* interface Token { text?: string; id: string | number }
Token(id) == [id |-> id]

\* tokens[i] of JavaScript: undefined outside 0 .. length - 1
At(arr, i) == IF 0 <= i /\ i < Len(arr) THEN Some(arr[i + 1]) ELSE Undefined

\* The effects a handler can have outside the component's own state.
NoEffects ==
    [handler |-> "none", key |-> "", idx |-> Undefined,
     removeCalls |-> <<>>,          \* arguments of the onTokenRemove calls, in order
     threw |-> FALSE,               \* a TypeError left the handler
     defaultPrevented |-> FALSE,    \* event.preventDefault()
     propagationStopped |-> FALSE,  \* event.nativeEvent.stopImmediatePropagation()
     dispatched |-> <<>>,           \* elements a KeyboardEvent was dispatched on
     focusCalls |-> 0,              \* combinedInputRef.current.focus()
     filterCalls |-> <<>>]          \* first arguments of the onFilterChange calls

Effects(handler, key, idx) ==
    [NoEffects EXCEPT !.handler = handler, !.key = key, !.idx = idx]

\* The parent owns tokens.  Asked to remove tokenId it either drops every
\* token with that id from the list it passes next, or leaves the list as is.
ParentRemove(toks, tokenId) == SelectSeq(toks, LAMBDA t : t.id # tokenId)

TokensAfter(toks, removeCalls, handled) ==
    IF handled /\ removeCalls # <<>> THEN ParentRemove(toks, removeCalls[1]) ELSE toks

\* const scrollContainerRef = useRef<HTMLDivElement>(null); no element is
\* ever given this ref, so its current stays null.
scrollContainerRef == Undefined

\* closeOptionList / showOptionList
closeOptionList == showMenu' = FALSE
showOptionList == showMenu' = TRUE

\* handleTokenFocus that selects the token but leaves the option list as it is
handleTokenFocus_KeepsList(tokenIdx) ==
    /\ selectedTokenIdx' = Some(tokenIdx)
    /\ ev' = Effects("handleTokenFocus", "", Some(tokenIdx))
    /\ UNCHANGED <<tokens, showMenu, activeDescendantRef, inputValue, reported, scroll, item>>

\* handleTokenFocus(tokenIdx)(): onFocus of the token rendered at tokenIdx
handleTokenFocus(tokenIdx) ==
    /\ selectedTokenIdx' = Some(tokenIdx)
    /\ closeOptionList
    /\ ev' = Effects("handleTokenFocus", "", Some(tokenIdx))
    /\ UNCHANGED <<tokens, activeDescendantRef, inputValue, reported, scroll, item>>

\* handleTokenBlur: onBlur of any rendered token
handleTokenBlur ==
    /\ tokens # <<>>
    /\ selectedTokenIdx' = Undefined
    /\ ev' = Effects("handleTokenBlur", "", Undefined)
    /\ UNCHANGED <<tokens, showMenu, activeDescendantRef, inputValue, reported, scroll, item>>

\* handleInputFocus
handleInputFocus ==
    /\ selectedTokenIdx' = Undefined
    /\ showOptionList
    /\ ev' = Effects("handleInputFocus", "", Undefined)
    /\ UNCHANGED <<tokens, activeDescendantRef, inputValue, reported, scroll, item>>

\* handleTokenKeyUp(tokenId)(e): the onTokenRemove calls it makes
handleTokenKeyUpCalls(tokenId, key) ==
    IF key = "Backspace" THEN <<tokenId>> ELSE <<>>

\* handleTokenKeyUp(token.id)(e) on the token rendered at tokenIdx.  On Escape
\* it focuses the input; when the input takes the focus (it is not disabled)
\* the browser delivers the token's blur and the input's focus at once.
handleTokenKeyUp(tokenIdx, key, handled, inputTakesFocus) ==
    LET tokenId == tokens[tokenIdx + 1].id
        calls == handleTokenKeyUpCalls(tokenId, key)
        escape == key = "Escape"
    IN  /\ tokens' = TokensAfter(tokens, calls, handled)
        /\ ev' = [Effects("handleTokenKeyUp", key, Some(tokenIdx)) EXCEPT
                    !.removeCalls = calls,
                    !.focusCalls = IF escape THEN 1 ELSE 0]
        /\ IF escape /\ inputTakesFocus
             THEN selectedTokenIdx' = Undefined /\ showOptionList
             ELSE UNCHANGED <<selectedTokenIdx, showMenu>>
        /\ UNCHANGED <<activeDescendantRef, inputValue, reported, scroll, item>>

\* handleRemove={() => { onTokenRemove(token.id) }} of the token at tokenIdx
handleRemove(tokenIdx, handled) ==
    LET calls == <<tokens[tokenIdx + 1].id>>
    IN  /\ tokens' = TokensAfter(tokens, calls, handled)
        /\ ev' = [Effects("handleRemove", "", Some(tokenIdx)) EXCEPT !.removeCalls = calls]
        /\ UNCHANGED <<selectedTokenIdx, showMenu, activeDescendantRef, inputValue,
                       reported, scroll, item>>

\* handleInputChange: the input holds the new value, the parent is told
handleInputChange(value) ==
    /\ value # inputValue
    /\ inputValue' = value
    /\ ev' = [Effects("handleInputChange", "", Undefined) EXCEPT !.filterCalls = <<value>>]
    /\ UNCHANGED <<tokens, selectedTokenIdx, showMenu, activeDescendantRef, reported,
                   scroll, item>>

\* handleInputKeyUp(e): what it calls and whether it throws.
\* A non-empty string is truthy; lastToken.id of an undefined lastToken is a
\* TypeError.
handleInputKeyUpResult(value, key, toks) ==
    IF Len(value) > 0
      THEN [removeCalls |-> <<>>, threw |-> FALSE]
      ELSE LET lastToken == At(toks, Len(toks) - 1)
           IN  IF key = "Backspace"
                 THEN IF lastToken = Undefined
                        THEN [removeCalls |-> <<>>, threw |-> TRUE]
                        ELSE [removeCalls |-> <<lastToken[1].id>>, threw |-> FALSE]
                 ELSE [removeCalls |-> <<>>, threw |-> FALSE]

handleInputKeyUp(key, handled) ==
    LET r == handleInputKeyUpResult(inputValue, key, tokens)
    IN  /\ tokens' = TokensAfter(tokens, r.removeCalls, handled)
        /\ ev' = [Effects("handleInputKeyUp", key, Undefined) EXCEPT
                    !.removeCalls = r.removeCalls, !.threw = r.threw]
        /\ UNCHANGED <<selectedTokenIdx, showMenu, activeDescendantRef, inputValue,
                       reported, scroll, item>>

\* onInputKeyPress that forwards whatever key was pressed
onInputKeyPressResult_AnyKey(key, activeDescendant) ==
    IF activeDescendant # Undefined
      THEN [defaultPrevented |-> TRUE, propagationStopped |-> TRUE,
            dispatched |-> <<activeDescendant[1]>>]
      ELSE [defaultPrevented |-> FALSE, propagationStopped |-> FALSE,
            dispatched |-> <<>>]

\* onInputKeyPress(event): what happens to the event
onInputKeyPressResult(key, activeDescendant) ==
    IF key = "Enter" /\ activeDescendant # Undefined
      THEN [defaultPrevented |-> TRUE, propagationStopped |-> TRUE,
            dispatched |-> <<activeDescendant[1]>>]
      ELSE [defaultPrevented |-> FALSE, propagationStopped |-> FALSE,
            dispatched |-> <<>>]

onInputKeyPress(key) ==
    LET r == onInputKeyPressResult(key, activeDescendantRef)
    IN  /\ ev' = [Effects("onInputKeyPress", key, Undefined) EXCEPT
                    !.defaultPrevented = r.defaultPrevented,
                    !.propagationStopped = r.propagationStopped,
                    !.dispatched = r.dispatched]
        /\ UNCHANGED <<tokens, selectedTokenIdx, showMenu, activeDescendantRef,
                       inputValue, reported, scroll, item>>

\* Overlay onClickOutside={closeOptionList} / onEscape={closeOptionList};
\* the overlay is rendered only while showMenu
overlayClose(handler) ==
    /\ showMenu
    /\ closeOptionList
    /\ ev' = Effects(handler, "", Undefined)
    /\ UNCHANGED <<tokens, selectedTokenIdx, activeDescendantRef, inputValue, reported,
                   scroll, item>>

onClickOutside == overlayClose("onClickOutside")
onEscape == overlayClose("onEscape")

\* isSelected={selectedTokenIdx === i} of the token rendered at i
isSelected(i) == selectedTokenIdx = Some(i)

RenderedTokens == 0..(Len(tokens) - 1)

\* --------------------------------------------------- scrollIntoViewingArea
DefaultMargin == 8

Coords == {k * Step : k \in 0..MaxCoord}
Margins == {0, DefaultMargin}
ScrollTops == {0, Step}

\* The top of every container.scrollTo call scrollIntoViewingArea makes, given
\* the child's and the container's getBoundingClientRect and container.scrollTop.
scrollToCalls(childTop, childBottom, containerTop, containerBottom, scrollTop, margin) ==
    LET isChildTopAboveViewingArea == childTop < containerTop + margin
        isChildBottomBelowViewingArea == childBottom > containerBottom - margin
    IN  IF isChildTopAboveViewingArea
          THEN LET scrollHeightToChildTop == childTop - containerTop + scrollTop
               IN  <<scrollHeightToChildTop - margin>>
          ELSE IF isChildBottomBelowViewingArea
                 THEN LET scrollHeightToChildBottom == childBottom - containerBottom + scrollTop
                      IN  <<scrollHeightToChildBottom + margin>>
                 ELSE <<>>

NoScroll ==
    [called |-> FALSE, childTop |-> 0, childBottom |-> 0, containerTop |-> 0,
     containerBottom |-> 0, scrollTop |-> 0, margin |-> DefaultMargin, scrollTo |-> <<>>]

\* The rectangles and the scroll position the browser can report for a child
\* and its container, before the call.
ScrollInputs(margins) ==
    {g \in [called : {FALSE}, childTop : Coords, childBottom : Coords,
            containerTop : Coords, containerBottom : Coords,
            scrollTop : ScrollTops, margin : margins, scrollTo : {<<>>}] :
        g.childTop <= g.childBottom /\ g.containerTop <= g.containerBottom}

\* scrollIntoViewingArea(child, container, margin) on the inputs g
scrollIntoViewingArea(g) ==
    [g EXCEPT !.called = TRUE,
              !.scrollTo = scrollToCalls(g.childTop, g.childBottom, g.containerTop,
                                         g.containerBottom, g.scrollTop, g.margin)]

\* onActiveDescendantChanged(current, _previous, directlyActivated), the
\* callback given to useFocusZone
onActiveDescendantChanged(current, directlyActivated) ==
    /\ activeDescendantRef' = current
    /\ reported' = current
    /\ IF current # Undefined /\ scrollContainerRef # Undefined /\ directlyActivated
         THEN \E g \in ScrollInputs({DefaultMargin}) : scroll' = scrollIntoViewingArea(g)
         ELSE UNCHANGED scroll
    /\ ev' = Effects("onActiveDescendantChanged", "", Undefined)
    /\ UNCHANGED <<tokens, selectedTokenIdx, showMenu, inputValue, item>>

\* ------------------------------------------------------------ Breadcrumb.Item
SELECTED_CLASS == "selected"

ClassWords == {"foo", "bar", SELECTED_CLASS}

\* classnames(...args): the truthy string arguments joined by a space
RECURSIVE classnames(_)
classnames(args) ==
    IF args = <<>> THEN <<>>
    ELSE LET arg == Head(args)
         IN  (IF arg.t = "string" /\ Truthy(arg) THEN arg.s ELSE <<>>) \o classnames(Tail(args))

\* attrs whose className is computed from selected alone
BreadcrumbItemAttrs_DropsClassName(props) ==
    [activeClassName |-> IF props.to.t = "string" THEN JsString(<<"selected">>) ELSE JsString(<<>>),
     className |-> JsString(classnames(<<JsAnd(props.selected, JsString(<<SELECTED_CLASS>>))>>)),
     ariaCurrent |-> JsCond(props.selected, JsString(<<"page">>), JsNull)]

\* styled.a.attrs<StyledBreadcrumbItemProps>(props => ({...}))
BreadcrumbItemAttrs(props) ==
    [activeClassName |-> IF props.to.t = "string" THEN JsString(<<"selected">>) ELSE JsString(<<>>),
     className |-> JsString(classnames(<<JsAnd(props.selected, JsString(<<SELECTED_CLASS>>)),
                                         props.className>>)),
     ariaCurrent |-> JsCond(props.selected, JsString(<<"page">>), JsNull)]

\* type StyledBreadcrumbItemProps and the className every component takes
BreadcrumbItemProps ==
    [to : {JsUndefined, JsString(<<"/home">>), JsObject},
     selected : {JsUndefined, JsBool(FALSE), JsBool(TRUE)},
     className : {JsUndefined} \cup {JsString(w) : w \in SeqsUpTo(ClassWords, MaxClasses)}]

NoItem ==
    [rendered |-> FALSE,
     props |-> [to |-> JsUndefined, selected |-> JsUndefined, className |-> JsUndefined],
     attrs |-> [activeClassName |-> JsString(<<>>), className |-> JsString(<<>>),
                ariaCurrent |-> JsNull]]

\* <Breadcrumb.Item {...props}>
renderBreadcrumbItem(props) ==
    /\ item' = [rendered |-> TRUE, props |-> props, attrs |-> BreadcrumbItemAttrs(props)]
    /\ UNCHANGED <<textVars, scroll>>

\* ------------------------------------------------------------ specifications
InitTextInput(lengths) ==
    /\ tokens \in {[i \in 1..n |-> Token(i)] : n \in lengths}
    /\ selectedTokenIdx = Undefined
    /\ showMenu = FALSE
    /\ activeDescendantRef = Undefined
    /\ inputValue = <<>>
    /\ reported = Undefined
    /\ ev = NoEffects

Init ==
    /\ InitTextInput(0..MaxTokens)
    /\ scroll = NoScroll
    /\ item = NoItem

\* TextInputWithTokens: every event the rendered elements can deliver
Next ==
    \/ \E i \in RenderedTokens : handleTokenFocus(i)
    \/ handleTokenBlur
    \/ \E i \in RenderedTokens, key \in Keys, handled \in BOOLEAN, inputTakesFocus \in BOOLEAN :
          handleTokenKeyUp(i, key, handled, inputTakesFocus)
    \/ \E i \in RenderedTokens, handled \in BOOLEAN : handleRemove(i, handled)
    \/ handleInputFocus
    \/ \E value \in InputValues : handleInputChange(value)
    \/ \E key \in Keys, handled \in BOOLEAN : handleInputKeyUp(key, handled)
    \/ \E key \in Keys : onInputKeyPress(key)
    \/ \E current \in {Undefined} \cup {Some(e) : e \in Items}, directlyActivated \in BOOLEAN :
          onActiveDescendantChanged(current, directlyActivated)
    \/ onClickOutside
    \/ onEscape

Spec == Init /\ [][Next]_vars

\* scrollIntoViewingArea applied to every pair of rectangles
InitScroll ==
    /\ InitTextInput({MaxTokens})
    /\ scroll \in ScrollInputs(Margins)
    /\ item = NoItem

callScrollIntoViewingArea ==
    /\ ~scroll.called
    /\ scroll' = scrollIntoViewingArea(scroll)
    /\ UNCHANGED <<textVars, item>>

NextScroll == callScrollIntoViewingArea

SpecScroll == InitScroll /\ [][NextScroll]_vars

\* Breadcrumb.Item rendered with every props
InitBreadcrumb ==
    /\ InitTextInput({MaxTokens})
    /\ scroll = NoScroll
    /\ item = NoItem

NextBreadcrumb == \E props \in BreadcrumbItemProps : renderBreadcrumbItem(props)

SpecBreadcrumb == InitBreadcrumb /\ [][NextBreadcrumb]_vars

\* ------------------------------------------------------------------ claims
Range(f) == {f[k] : k \in 1..Len(f)}

\* C1: a key-up on the input calls onTokenRemove exactly once, with the id of
\* the last token of the list the handler sees, when the key is Backspace and
\* the input's value is empty; for a non-empty value or another key it does
\* not call onTokenRemove.
C1_BackspaceRemovesLastToken ==
    [][ev'.handler = "handleInputKeyUp" =>
         IF ev'.key = "Backspace" /\ inputValue = <<>>
           THEN /\ Len(tokens) > 0
                /\ ev'.removeCalls = <<tokens[Len(tokens)].id>>
           ELSE ev'.removeCalls = <<>>]_vars

\* C2: after a key press on the input, the event was prevented, stopped and
\* dispatched exactly once, on the most recently reported active descendant,
\* if the key was Enter and an active descendant is recorded; otherwise it
\* was neither prevented, stopped nor dispatched.
C2_EnterForwardedIffActiveDescendant ==
    ev.handler = "onInputKeyPress" =>
        IF ev.key = "Enter" /\ activeDescendantRef # Undefined
          THEN /\ ev.defaultPrevented
               /\ ev.propagationStopped
               /\ reported # Undefined
               /\ ev.dispatched = <<reported[1]>>
          ELSE /\ ~ev.defaultPrevented
               /\ ~ev.propagationStopped
               /\ ev.dispatched = <<>>

\* an Enter key press was forwarded to the active descendant
C2_Witness ==
    /\ ev.handler = "onInputKeyPress"
    /\ ev.key = "Enter"
    /\ activeDescendantRef # Undefined
    /\ ev.dispatched = <<activeDescendantRef[1]>>

ChildInsideViewingArea(g) ==
    /\ g.childTop >= g.containerTop + g.margin
    /\ g.childBottom <= g.containerBottom - g.margin

ChildOutsideOnBothEnds(g) ==
    /\ g.childTop < g.containerTop + g.margin
    /\ g.childBottom > g.containerBottom - g.margin

\* C3: scrollIntoViewingArea makes no container.scrollTo call when the child
\* is completely inside the viewing area, nor when it extends outside the
\* viewing area on both ends.
C3_NoScrollInsideOrBothEnds ==
    (scroll.called /\ (ChildInsideViewingArea(scroll) \/ ChildOutsideOnBothEnds(scroll)))
        => scroll.scrollTo = <<>>

CallerClasses(props) == IF props.className.t = "string" THEN props.className.s ELSE <<>>

EndsWith(words, suffix) ==
    /\ Len(suffix) <= Len(words)
    /\ SubSeq(words, Len(words) - Len(suffix) + 1, Len(words)) = suffix

\* C4: a rendered Breadcrumb.Item has aria-current 'page' and the class
\* 'selected' when selected is truthy, and aria-current null and no class
\* beyond the caller's when selected is falsy; the caller's className is kept
\* in both cases.
C4_SelectedMarksCurrentPage ==
    item.rendered =>
        /\ EndsWith(item.attrs.className.s, CallerClasses(item.props))
        /\ IF Truthy(item.props.selected)
             THEN /\ item.attrs.ariaCurrent = JsString(<<"page">>)
                  /\ SELECTED_CLASS \in Range(item.attrs.className.s)
             ELSE /\ item.attrs.ariaCurrent = JsNull
                  /\ item.attrs.className.s = CallerClasses(item.props)

\* a selected item rendered with a className of the caller's
C4_Witness ==
    /\ item.rendered
    /\ Truthy(item.props.selected)
    /\ CallerClasses(item.props) = <<"foo", "bar">>
    /\ item.attrs.className.s = <<SELECTED_CLASS, "foo", "bar">>

\* C5: the option list is never shown while a token is selected, and at most
\* one rendered token has isSelected.
C5_MenuExcludesSelection ==
    /\ showMenu => selectedTokenIdx = Undefined
    /\ Cardinality({i \in RenderedTokens : isSelected(i)}) <= 1

\* a token took the focus and is the one selected token
C5_Witness ==
    /\ ev.handler = "handleTokenFocus"
    /\ Len(tokens) >= 2
    /\ selectedTokenIdx = Some(1)
    /\ {i \in RenderedTokens : isSelected(i)} = {1}
    /\ ~showMenu

\* C6: a key-up on the input never throws, and every onTokenRemove call it
\* makes has the id of a token of the list the handler sees.
C6_KeyUpNeverReadsMissingToken ==
    [][ev'.handler = "handleInputKeyUp" =>
         /\ ~ev'.threw
         /\ \A k \in 1..Len(ev'.removeCalls) :
                \E j \in 1..Len(tokens) : tokens[j].id = ev'.removeCalls[k]]_vars

\* C7: selectedTokenIdx is undefined or an index of the current tokens list.
C7_SelectedIdxIsValidIndex ==
    \/ selectedTokenIdx = Undefined
    \/ (0 <= selectedTokenIdx[1] /\ selectedTokenIdx[1] < Len(tokens))

====
